---- MODULE Spec2Model ----
(***************************************************************************)
(* Model of the dashboard pages.  One behaviour follows one page, chosen   *)
(* by the route (page).                                                    *)
(*                                                                         *)
(* The realtime monitoring page (src/app/realtime/page.tsx) is a React     *)
(* component holding the buffer last7Data, the focus index currentIndex    *)
(* and the connection flag isLive, driven by a 5000 ms refresh interval    *)
(* (fetch7Data) and a 3000 ms cycle interval.  The alerts, analysis,       *)
(* history and reports pages fetch on mount and on their own intervals.    *)
(* The helpers getEnergyStatus and calculateCost are operators, applied    *)
(* to inputs drawn from bounded sets under HelperSpec.                     *)
(*                                                                         *)
(* One action models one handler together with the commit React performs   *)
(* for its state updates: the re-render and the re-run of the effects      *)
(* whose dependencies changed.                                             *)
(***************************************************************************)
EXTENDS Integers, Sequences, FiniteSets

\* ----------------------------------------------------------------- bounds
\* At most MaxReq requests are issued in one behaviour.
MaxReq == 3
\* A successful response carries 1..MaxLen readings.
MaxLen == 3
\* Time passes in steps of at most TickMs milliseconds.
TickMs == 1000
\* The measured time since the previous advance saturates here.
ElapsedCap == 9000

\* Each fetcher of the other pages issues at most MaxPoll requests.
MaxPoll == 2
\* A list in a response of the other pages holds at most MaxItems entries.
MaxItems == 2
\* Refresh Data is clicked at most MaxClicks times.
MaxClicks == 1

\* getEnergyStatus is given the usages within Margin hundredths of a kWh of a threshold.
Margin == 1
\* calculateCost is given 0..MaxKWh times KWhStep hundredths of a kWh.
MaxKWh == 8
KWhStep == 250

\* ------------------------------------------------------ program constants
\* setInterval(fetch7Data, 5000)
RefreshPeriodMs == 5000
\* setInterval(..., 3000) of the cycle effect
CyclePeriodMs == 3000
\* alerts page: setInterval(..., 30000)
AlertsPeriodMs == 30000
\* history page: setInterval(fetchStatistics, 60000)
HistoryStatsPeriodMs == 60000
\* history page: setInterval(fetchDailyUsage, 300000)
DailyUsagePeriodMs == 300000
\* reports page: setInterval(fetchData, 300000)
ReportsPeriodMs == 300000
\* reports page: const USD_TO_IDR = 15500
USD_TO_IDR == 15500

VARIABLES
    page,          \* the route: which page component this behaviour follows
    phase,         \* "created" | "mounted" | "unmounted": the component's life cycle
    last7Data,     \* useState<RawPowerData[]>([])
    currentIndex,  \* useState(0)
    isLive,        \* useState(true)
    cycleLen,      \* last7Data.length as captured by the running cycle interval; 0: no interval
    refreshLeft,   \* ms until the refresh interval fires
    cycleLeft,     \* ms until the cycle interval fires
    issued,        \* number of requests issued so far
    inflight,      \* requests awaiting their response
    \* history of the run, read by the properties only
    lastOutcome,   \* how the most recently completed refresh ended
    failsBefore,   \* failed refreshes in a row just before the most recently completed one
    lastOkData,    \* the data array of the most recent successful response
    newestShown,   \* the newest request whose data has been installed in the buffer
    sinceAdvance,  \* ms since the previous advance (or since the first cycle interval started)
    base,          \* currentIndex at the start of the current run of advances
    steps,         \* advances since base was taken
    shrunk         \* "no" | "pending" | "advanced": a shorter buffer was installed / first advance after it

VARIABLES
    pgPhase,       \* life cycle of the alerts, analysis, history or reports page
    timers,        \* ms until each interval of the page fires
    polls,         \* requests issued so far, per fetcher
    pending,       \* requests awaiting their response, per fetcher
    \* alerts page
    alerts,        \* useState<Alert[]>([])
    summary,       \* useState<AlertSummary | null>(null)
    alLoading,     \* useState(true)
    filter,        \* useState('all')
    alOutcome,     \* alerts: how the most recently completed fetchAlerts ended
    smOutcome,     \* alerts: how the most recently completed fetchSummary ended
    \* analysis page
    peakUsageData,   \* useState<PeakData[]>(DUMMY_PEAK_DATA)
    loadPatternData, \* useState<LoadPatternDay[]>(DUMMY_LOAD_PATTERN)
    powerFactor,     \* useState(0.95), in hundredths
    anStatistics,    \* useState({peakHours, efficiencyTrend, savingsPotential})
    anLoading,       \* useState(true)
    anError,         \* useState<string | null>(null)
    \* history page
    activeFilter,    \* useState<TimeFilter>("Daily")
    trendData,       \* useState<TrendData[]>([])
    dailyUsageData,  \* useState<DailyUsageData[]>([])
    hStatistics,     \* useState<Statistics>({total_energy: 0, ...})
    hLoading,        \* useState(true)
    lastUpdate,      \* useState<Date>(new Date()): the trend request that set it, 0 at mount
    trendSource,     \* history: the endpoint whose response trendData was derived from
    clicks,          \* history: number of clicks on Refresh Data
    \* reports page
    monthlyReports,  \* useState<MonthlyReport[]>([])
    currentMonth,    \* useState<CurrentMonthReport | null>(null)
    rStatistics,     \* useState<Statistics | null>(null)
    rLoading,        \* useState(true)
    monthlyRun,      \* reports: the fetchData run that set monthlyReports, 0 at mount
    currentRun,      \* reports: the fetchData run that set currentMonth, 0 at mount
    statsRun,        \* reports: the fetchData run that set statistics, 0 at mount
    \* the helper functions: inputs and results (a result is << >> until computed)
    tool,            \* "status" | "cost" | "none": the helper a behaviour exercises
    usage,           \* argument of getEnergyStatus, in hundredths of a kWh
    usage2,          \* a second usage, classified for the same period
    period,          \* 'hourly' | 'daily' | 'monthly'
    kWh,             \* argument of calculateCost, in hundredths of a kWh
    status,          \* << getEnergyStatus(usage, period) >>
    status2,         \* << getEnergyStatus(usage2, period) >>
    cost,            \* << calculateCost(kWh) >>, history page
    costDouble,      \* << calculateCost(2 * kWh) >>, history page
    rCost,           \* << calculateCost(kWh) >>, reports page
    rCostDouble      \* << calculateCost(2 * kWh) >>, reports page

\* The variables of the alerts page.
alVars == << alerts, summary, alLoading, filter, alOutcome, smOutcome >>

\* The variables of the analysis page.
anVars == << peakUsageData, loadPatternData, powerFactor, anStatistics, anLoading, anError >>

\* The variables of the history page.
hiVars == << activeFilter, trendData, dailyUsageData, hStatistics, hLoading, lastUpdate,
             trendSource, clicks >>

\* The variables of the reports page.
reVars == << monthlyReports, currentMonth, rStatistics, rLoading, monthlyRun, currentRun, statsRun >>

\* The inputs and results of the helper functions.
hpVars == << tool, usage, usage2, period, kWh, status, status2, cost, costDouble, rCost,
             rCostDouble >>

\* The React state of the four pages.
viewVars == << alVars, anVars, hiVars, reVars >>

\* Life cycle, intervals and requests of the alerts, analysis, history and reports pages.
pgVars == << pgPhase, timers, polls, pending >>

\* Everything the realtime page does not touch.
otherVars == << page, pgVars, viewVars, hpVars >>

\* The variables of the realtime page.
rtVars == << phase, last7Data, currentIndex, isLive, cycleLen, refreshLeft, cycleLeft,
             issued, inflight, lastOutcome, failsBefore, lastOkData, newestShown,
             sinceAdvance, base, steps, shrunk >>

vars == << rtVars, otherVars >>

Min(a, b) == IF a <= b THEN a ELSE b

Max(a, b) == IF a >= b THEN a ELSE b

\* -------------------------------------------------------------- responses
\* A reading of the response to request r: its position in the array and the
\* snapshot of the table it was read from (one snapshot per request).
Reading(r, k) == [id |-> k, created_at |-> r]

\* json.data of a successful response to request r with n readings.
Payload(r, n) == [k \in 1..n |-> Reading(r, k)]

\* What fetch() and res.json() can produce for request r: a rejected promise
\* (network error, unparsable body), a non-2xx status, or an envelope
\* {success, data} whose data may be missing, empty or hold 1..MaxLen readings.
Responses(r) ==
    { [rejected |-> TRUE, ok |-> FALSE, success |-> FALSE, hasData |-> FALSE, data |-> << >>],
      [rejected |-> FALSE, ok |-> FALSE, success |-> FALSE, hasData |-> FALSE, data |-> << >>],
      [rejected |-> FALSE, ok |-> TRUE, success |-> TRUE, hasData |-> FALSE, data |-> << >>],
      [rejected |-> FALSE, ok |-> TRUE, success |-> TRUE, hasData |-> TRUE, data |-> << >>] }
    \cup { [rejected |-> FALSE, ok |-> TRUE, success |-> FALSE, hasData |-> TRUE,
            data |-> Payload(r, n)] : n \in 1..MaxLen }
    \cup { [rejected |-> FALSE, ok |-> TRUE, success |-> TRUE, hasData |-> TRUE,
            data |-> Payload(r, n)] : n \in 1..MaxLen }

\* The branch of fetch7Data a response takes, as a label.
Outcome(resp) ==
    IF resp.rejected THEN "neterr"
    ELSE IF ~resp.ok THEN "http"
    ELSE IF ~resp.success THEN "nosuccess"
    ELSE IF ~resp.hasData THEN "nodata"
    ELSE IF Len(resp.data) = 0 THEN "empty"
    ELSE "ok"

FailOutcomes == {"neterr", "http", "nosuccess", "nodata", "empty"}

\* await fetch(...) resolved and res.ok holds: the try block reaches the envelope test.
ReachesEnvelope(resp) == ~resp.rejected /\ resp.ok

\* Variant: the envelope test without its length check.
EnvelopeAcceptedNoLength(resp) == resp.success /\ resp.hasData

\* if (json.success && json.data && json.data.length > 0)
EnvelopeAccepted(resp) == resp.success /\ resp.hasData /\ Len(resp.data) > 0

\* ------------------------------------------------------------------ render
\* const currentData = last7Data[currentIndex] is undefined, and line 180 reads
\* currentData.created_at: the render throws.
RenderThrowsWith(buffer, index) == Len(buffer) > 0 /\ index >= Len(buffer)

RenderThrows == RenderThrowsWith(last7Data, currentIndex)

\* What the returned tree shows for the connection state.
Badge ==
    IF Len(last7Data) = 0 THEN "loading"
    ELSE IF RenderThrows THEN "error"
    ELSE IF isLive THEN "Live Streaming"
    ELSE "Disconnected"

\* ------------------------------------------------------------------- init
RealtimeInit ==
    /\ phase = "created"
    /\ last7Data = << >>
    /\ currentIndex = 0
    /\ isLive = TRUE
    /\ cycleLen = 0
    /\ refreshLeft = 0
    /\ cycleLeft = 0
    /\ issued = 0
    /\ inflight = {}
    /\ lastOutcome = "none"
    /\ failsBefore = 0
    /\ lastOkData = << >>
    /\ newestShown = 0
    /\ sinceAdvance = 0
    /\ base = 0
    /\ steps = 0
    /\ shrunk = "no"

\* ---------------------------------------------------------- state updates
\* Variant: wraps one step late (> where >= is meant).
NextIndexWrapLate(prevIndex, len) == IF prevIndex + 1 > len THEN 0 ELSE prevIndex + 1

\* Variant: stops at the last reading instead of wrapping.
NextIndexClamped(prevIndex, len) == Min(prevIndex + 1, len - 1)

\* setCurrentIndex((prevIndex) => (prevIndex + 1) % last7Data.length)
NextIndex(prevIndex, len) == (prevIndex + 1) % len

\* Variant: appends the response to the buffer instead of replacing it.
BufferAppended(old, data) == old \o data

\* Variant: keeps the buffer when the response is older than what is shown.
BufferKeptIfNewer(old, data) ==
    IF Len(old) > 0 /\ data[1].created_at < old[1].created_at THEN old ELSE data

\* setLast7Data(json.data): the buffer after an accepted response.
BufferAfterSuccess(old, data) == data

\* Variant: a failure blanks the buffer.
BufferCleared(old) == << >>

\* The else branch and the catch block call no setLast7Data.
BufferAfterFailure(old) == old

\* Variant: a refresh moves the focus to the newest reading.
IndexJumpsToLast(index, data) == Len(data) - 1

\* fetch7Data never calls setCurrentIndex.
IndexAfterRefresh(index, data) == index

\* Variant: a failed refresh postpones the next one by a further period.
RefreshLeftBackoff(left, resp) ==
    IF Outcome(resp) \in FailOutcomes THEN left + RefreshPeriodMs ELSE left

\* fetch7Data never touches the refresh interval: its effect has no
\* dependencies, so no outcome restarts or delays it.
RefreshLeftAfterCompletion(left, resp) == left

\* The cycle effect has [last7Data] as its dependencies: a new array re-runs it.
\* It returns early on an empty array, else its interval captures last7Data.length.
CycleLenAfterRefresh(oldLen, data) == Len(data)

\* The cleanup clears the old interval and the effect sets a new one of 3000 ms.
CycleLeftAfterRefresh(oldLeft, data) == IF Len(data) = 0 THEN 0 ELSE CyclePeriodMs

\* ---------------------------------------------------------------- actions
\* The component mounts: the first effect calls fetch7Data() and sets the
\* refresh interval; the cycle effect returns early, last7Data being empty.
Mount ==
    /\ page = "realtime"
    /\ phase = "created"
    /\ phase' = "mounted"
    /\ issued' = issued + 1
    /\ inflight' = inflight \cup {issued + 1}
    /\ refreshLeft' = RefreshPeriodMs
    /\ cycleLen' = CycleLenAfterRefresh(cycleLen, last7Data)
    /\ cycleLeft' = CycleLeftAfterRefresh(cycleLeft, last7Data)
    /\ UNCHANGED << last7Data, currentIndex, isLive, lastOutcome, lastOkData,
                    newestShown, sinceAdvance, base, steps, shrunk >>
    /\ UNCHANGED << failsBefore, otherVars >>

\* The refresh interval is armed until MaxReq requests have been issued.
RefreshArmed == phase = "mounted" /\ issued < MaxReq

CycleArmed == phase = "mounted" /\ cycleLen > 0

\* Time passes, by no more than TickMs and no further than the next timer.
Step ==
    Min(TickMs, Min(IF RefreshArmed THEN refreshLeft ELSE TickMs,
                    IF CycleArmed THEN cycleLeft ELSE TickMs))

Tick ==
    /\ RefreshArmed \/ CycleArmed
    /\ Step > 0
    /\ refreshLeft' = IF RefreshArmed THEN refreshLeft - Step ELSE refreshLeft
    /\ cycleLeft' = IF CycleArmed THEN cycleLeft - Step ELSE cycleLeft
    /\ sinceAdvance' = IF CycleArmed THEN Min(sinceAdvance + Step, ElapsedCap) ELSE sinceAdvance
    /\ UNCHANGED << phase, last7Data, currentIndex, isLive, cycleLen, issued, inflight,
                    lastOutcome, lastOkData, newestShown, base, steps, shrunk >>
    /\ UNCHANGED << failsBefore, otherVars >>

\* The refresh interval fires: fetch7Data() issues a request, whatever is in flight.
RefreshTick ==
    /\ RefreshArmed
    /\ refreshLeft = 0
    /\ issued' = issued + 1
    /\ inflight' = inflight \cup {issued + 1}
    /\ refreshLeft' = RefreshPeriodMs
    /\ UNCHANGED << phase, last7Data, currentIndex, isLive, cycleLen, cycleLeft,
                    lastOutcome, lastOkData, newestShown, sinceAdvance, base, steps, shrunk >>
    /\ UNCHANGED << failsBefore, otherVars >>

\* The cycle interval fires.
CycleTick ==
    /\ CycleArmed
    /\ cycleLeft = 0
    /\ currentIndex' = NextIndex(currentIndex, cycleLen)
    /\ cycleLeft' = CyclePeriodMs
    /\ sinceAdvance' = 0
    /\ IF steps >= Len(last7Data)
         THEN base' = currentIndex /\ steps' = 1
         ELSE base' = base /\ steps' = steps + 1
    /\ shrunk' = IF shrunk = "pending" THEN "advanced" ELSE "no"
    /\ UNCHANGED << phase, last7Data, isLive, cycleLen, refreshLeft, issued, inflight,
                    lastOutcome, lastOkData, newestShown >>
    /\ UNCHANGED << failsBefore, otherVars >>

\* The response to request r arrives and fetch7Data runs to its end.
\* An accepted response sets last7Data and isLive in one commit, which re-runs
\* the cycle effect; everything else only sets isLive to false.
Complete(r, resp) ==
    /\ phase = "mounted"
    /\ r \in inflight
    /\ inflight' = inflight \ {r}
    /\ lastOutcome' = Outcome(resp)
    /\ IF ReachesEnvelope(resp) /\ EnvelopeAccepted(resp)
         THEN /\ last7Data' = BufferAfterSuccess(last7Data, resp.data)
              /\ isLive' = TRUE
              /\ currentIndex' = IndexAfterRefresh(currentIndex, resp.data)
              /\ IF RenderThrowsWith(last7Data', currentIndex')
                   THEN \* the render of the new state throws at line 180: it is
                        \* never committed, the cycle effect does not re-run, the
                        \* component is removed and both cleanups run.
                        /\ phase' = "unmounted"
                        /\ cycleLen' = 0
                        /\ cycleLeft' = 0
                        /\ refreshLeft' = 0
                   ELSE /\ phase' = phase
                        /\ cycleLen' = CycleLenAfterRefresh(cycleLen, last7Data')
                        /\ cycleLeft' = CycleLeftAfterRefresh(cycleLeft, last7Data')
                        /\ refreshLeft' = RefreshLeftAfterCompletion(refreshLeft, resp)
              /\ newestShown' = Max(newestShown, r)
              /\ sinceAdvance' = IF cycleLen = 0 THEN 0 ELSE sinceAdvance
              /\ base' = currentIndex'
              /\ steps' = 0
              /\ shrunk' = IF Len(last7Data') < Len(last7Data) THEN "pending" ELSE "no"
         ELSE /\ last7Data' = BufferAfterFailure(last7Data)
              /\ isLive' = FALSE
              /\ refreshLeft' = RefreshLeftAfterCompletion(refreshLeft, resp)
              /\ UNCHANGED << phase, currentIndex, cycleLen, cycleLeft, newestShown,
                              sinceAdvance, base, steps, shrunk >>
    /\ lastOkData' = IF Outcome(resp) = "ok" THEN resp.data ELSE lastOkData
    /\ failsBefore' = IF lastOutcome \in FailOutcomes THEN failsBefore + 1 ELSE 0
    /\ UNCHANGED issued
    /\ UNCHANGED otherVars

\* A response that arrives after the unmount: its state updates are discarded.
CompleteUnmounted(r) ==
    /\ phase = "unmounted"
    /\ r \in inflight
    /\ inflight' = inflight \ {r}
    /\ UNCHANGED << phase, last7Data, currentIndex, isLive, cycleLen, refreshLeft,
                    cycleLeft, issued, lastOutcome, lastOkData, newestShown,
                    sinceAdvance, base, steps, shrunk >>
    /\ UNCHANGED << failsBefore, otherVars >>

\* The cleanups of both effects: clearInterval(interval), clearInterval(cycleInterval).
\* No request is cancelled.
Unmount ==
    /\ phase = "mounted"
    /\ phase' = "unmounted"
    /\ cycleLen' = 0
    /\ cycleLeft' = 0
    /\ refreshLeft' = 0
    /\ UNCHANGED << last7Data, currentIndex, isLive, issued, inflight, lastOutcome,
                    lastOkData, newestShown, sinceAdvance, base, steps, shrunk >>
    /\ UNCHANGED << failsBefore, otherVars >>

\* ------------------------------------------- the other pages: life cycle
Pages == {"realtime", "alerts", "analysis", "history", "reports"}

Fetchers == {"alerts", "summary", "peak", "load", "pf", "anstats",
             "hstats", "trend", "daily", "reports"}

Intervals == {"alerts", "hstats", "daily", "reports"}

\* The intervals a page sets in its mount effects (the analysis page sets none).
PageIntervals(p) ==
    CASE p = "alerts" -> {"alerts"}
      [] p = "history" -> {"hstats", "daily"}
      [] p = "reports" -> {"reports"}
      [] OTHER -> {}

Period(t) ==
    CASE t = "alerts" -> AlertsPeriodMs
      [] t = "hstats" -> HistoryStatsPeriodMs
      [] t = "daily" -> DailyUsagePeriodMs
      [] OTHER -> ReportsPeriodMs

\* The fetches the callback of an interval issues.
IntervalFetchers(t) ==
    CASE t = "alerts" -> {"alerts", "summary"}
      [] t = "hstats" -> {"hstats"}
      [] t = "daily" -> {"daily"}
      [] OTHER -> {"reports"}

\* The fetches a page issues in its mount effects.
MountFetchers(p) ==
    CASE p = "alerts" -> {"alerts", "summary"}
      [] p = "analysis" -> {"peak", "load", "pf", "anstats"}
      [] p = "history" -> {"hstats", "trend", "daily"}
      [] p = "reports" -> {"reports"}
      [] OTHER -> {}

\* The n-th request of a fetcher; arg is what its closure captured.
Request(n, a) == [id |-> n, arg |-> a]

\* What the closure of a fetch captures when it is issued: fetchTrendData reads
\* activeFilter, fetchData of the reports page starts with its first fetch.
Captured(f) ==
    CASE f = "trend" -> activeFilter
      [] f = "reports" -> "monthly"
      [] OTHER -> "-"

PollsAfterIssue(fs) == [f \in Fetchers |-> IF f \in fs THEN polls[f] + 1 ELSE polls[f]]

PendingAfterIssue(fs) ==
    [f \in Fetchers |->
        IF f \in fs THEN pending[f] \cup {Request(polls[f] + 1, Captured(f))} ELSE pending[f]]

\* fetchData of the reports page awaits three fetches one after the other.
NextStage(stage) == IF stage = "monthly" THEN "current" ELSE "stats"

\* A response arrives: the request is over, or the run goes on to its next fetch.
PendingAfterArrival(f, r) ==
    IF f = "reports" /\ r.arg # "stats"
    THEN [pending EXCEPT ![f] = (pending[f] \ {r}) \cup {Request(r.id, NextStage(r.arg))}]
    ELSE [pending EXCEPT ![f] = pending[f] \ {r}]

PagesInit ==
    /\ pgPhase = "created"
    /\ timers = [t \in Intervals |-> 0]
    /\ polls = [f \in Fetchers |-> 0]
    /\ pending = [f \in Fetchers |-> {}]

\* The page mounts: its effects issue the first fetches and set the intervals.
PageMount ==
    /\ page # "realtime"
    /\ pgPhase = "created"
    /\ pgPhase' = "mounted"
    /\ timers' = [t \in Intervals |-> IF t \in PageIntervals(page) THEN Period(t) ELSE 0]
    /\ polls' = PollsAfterIssue(MountFetchers(page))
    /\ pending' = PendingAfterIssue(MountFetchers(page))
    /\ UNCHANGED << page, rtVars, hpVars, viewVars >>

\* Variant: the effect returns no cleanup, the interval outlives the page.
IntervalArmedNoCleanup(t) ==
    /\ pgPhase # "created"
    /\ t \in PageIntervals(page)
    /\ \A f \in IntervalFetchers(t) : polls[f] < MaxPoll

\* An interval is armed while the page is mounted, until MaxPoll requests were issued.
IntervalArmed(t) ==
    /\ pgPhase = "mounted"
    /\ t \in PageIntervals(page)
    /\ \A f \in IntervalFetchers(t) : polls[f] < MaxPoll

ArmedIntervals == {t \in Intervals : IntervalArmed(t)}

\* Time passes up to the next interval that is due.
PageStep == CHOOSE d \in {timers[t] : t \in ArmedIntervals} : \A t \in ArmedIntervals : d <= timers[t]

PageTick ==
    /\ ArmedIntervals # {}
    /\ PageStep > 0
    /\ timers' = [t \in Intervals |-> IF t \in ArmedIntervals THEN timers[t] - PageStep ELSE timers[t]]
    /\ UNCHANGED << page, pgPhase, polls, pending, rtVars, hpVars, viewVars >>

\* An interval fires and its callback issues its fetches.
IntervalFire(t) ==
    /\ IntervalArmed(t)
    /\ timers[t] = 0
    /\ timers' = [timers EXCEPT ![t] = Period(t)]
    /\ polls' = PollsAfterIssue(IntervalFetchers(t))
    /\ pending' = PendingAfterIssue(IntervalFetchers(t))
    /\ rLoading' = (IF t = "reports" THEN TRUE ELSE rLoading)
    /\ UNCHANGED << page, pgPhase, rtVars, hpVars, alVars, anVars, hiVars, monthlyReports, currentMonth,
                    rStatistics, monthlyRun, currentRun, statsRun >>

\* The cleanups of the page's effects clear its intervals; no request is cancelled.
PageUnmount ==
    /\ pgPhase = "mounted"
    /\ pgPhase' = "unmounted"
    /\ timers' = [t \in Intervals |-> 0]
    /\ UNCHANGED << page, polls, pending, rtVars, hpVars, viewVars >>

\* A response that arrives after the unmount: its state updates are discarded.
PageCompleteUnmounted(f, r) ==
    /\ pgPhase = "unmounted"
    /\ r \in pending[f]
    /\ pending' = PendingAfterArrival(f, r)
    /\ UNCHANGED << page, pgPhase, timers, polls, rtVars, hpVars, viewVars >>

\* ----------------------------------------------------------- alerts page
Severities == {"critical", "warning", "info"}

\* The alert lists /power/alerts can return.
AlertLists ==
    UNION { { [k \in 1..m |-> [id |-> k, severity |-> sv[k]]] : sv \in [1..m -> Severities] } :
              m \in 0..MaxItems }

\* A value of the alerts state: an array, or undefined.
JsArray(list) == [defined |-> TRUE, list |-> list]

JsUndefined == [defined |-> FALSE, list |-> << >>]

\* What fetch() and res.json() of /power/alerts can produce: a rejected promise or
\* an unparsable body, or a JSON body {success, data} under any status.
AlertsResponses ==
    { [rejected |-> TRUE, ok |-> FALSE, success |-> FALSE, hasData |-> FALSE, data |-> << >>] }
    \cup { [rejected |-> FALSE, ok |-> o, success |-> FALSE, hasData |-> FALSE, data |-> << >>] :
             o \in BOOLEAN }
    \cup { [rejected |-> FALSE, ok |-> TRUE, success |-> TRUE, hasData |-> FALSE, data |-> << >>] }
    \cup { [rejected |-> FALSE, ok |-> o, success |-> TRUE, hasData |-> TRUE, data |-> l] :
             o \in BOOLEAN, l \in AlertLists }

\* A value of the summary state: null, undefined or the server's summary.
SummaryNull == [kind |-> "null", total |-> 0]

SummaryUndefined == [kind |-> "undefined", total |-> 0]

SummaryValue(n) == [kind |-> "value", total |-> n]

SummaryResponses ==
    { [rejected |-> TRUE, ok |-> FALSE, success |-> FALSE, hasData |-> FALSE, data |-> 0] }
    \cup { [rejected |-> FALSE, ok |-> o, success |-> FALSE, hasData |-> FALSE, data |-> 0] :
             o \in BOOLEAN }
    \cup { [rejected |-> FALSE, ok |-> TRUE, success |-> TRUE, hasData |-> FALSE, data |-> 0] }
    \cup { [rejected |-> FALSE, ok |-> o, success |-> TRUE, hasData |-> TRUE, data |-> n] :
             o \in BOOLEAN, n \in 0..MaxItems }

AlertsInit ==
    /\ alerts = JsArray(<< >>)
    /\ summary = SummaryNull
    /\ alLoading = TRUE
    /\ filter = "all"
    /\ alOutcome = "none"
    /\ smOutcome = "none"

\* json.data of a parsed body: undefined when the field is missing.
AlertsDataOf(resp) == IF resp.hasData THEN JsArray(resp.data) ELSE JsUndefined

\* Variant: a failed poll empties the list.
AlertsClearedOnFailure(old, resp) ==
    IF ~resp.rejected /\ resp.success THEN AlertsDataOf(resp) ELSE JsArray(<< >>)

\* try { ...; if (json.success) { setAlerts(json.data) } } catch { }: res.ok is not read.
AlertsAfter(old, resp) ==
    IF ~resp.rejected /\ resp.success THEN AlertsDataOf(resp) ELSE old

SummaryDataOf(resp) == IF resp.hasData THEN SummaryValue(resp.data) ELSE SummaryUndefined

\* if (json.success) { setSummary(json.data) }
SummaryAfter(old, resp) ==
    IF ~resp.rejected /\ resp.success THEN SummaryDataOf(resp) ELSE old

\* How a fetch of the alerts page ends: in the catch block (network error,
\* body that does not parse), with success false, or in setAlerts / setSummary.
PollOutcome(resp) ==
    IF resp.rejected THEN "error" ELSE IF ~resp.success THEN "unsuccessful" ELSE "ok"

\* fetchAlerts runs to its end: the finally block sets loading false.
AlertsComplete(r, resp) ==
    /\ pgPhase = "mounted"
    /\ r \in pending["alerts"]
    /\ pending' = PendingAfterArrival("alerts", r)
    /\ alerts' = AlertsAfter(alerts, resp)
    /\ alLoading' = FALSE
    /\ alOutcome' = PollOutcome(resp)
    /\ IF ~alerts'.defined
         THEN \* alerts.filter / filteredAlerts.length throws in the render of the
              \* new state: the page is removed and the effect's cleanup runs.
              /\ pgPhase' = "unmounted"
              /\ timers' = [t \in Intervals |-> 0]
         ELSE UNCHANGED << pgPhase, timers >>
    /\ UNCHANGED << page, polls, summary, filter, smOutcome, rtVars, hpVars, anVars, hiVars, reVars >>

\* fetchSummary runs to its end.
SummaryComplete(r, resp) ==
    /\ pgPhase = "mounted"
    /\ r \in pending["summary"]
    /\ pending' = PendingAfterArrival("summary", r)
    /\ summary' = SummaryAfter(summary, resp)
    /\ smOutcome' = PollOutcome(resp)
    /\ UNCHANGED << page, pgPhase, timers, polls, alerts, alLoading, filter, alOutcome, rtVars, hpVars, anVars, hiVars, reVars >>

\* Variant: the filter is not applied.
FilteredAlertsKeepsAll == alerts.list

\* filter === 'all' ? alerts : alerts.filter(a => a.severity === filter)
FilteredAlerts == IF filter = "all" THEN alerts.list ELSE SelectSeq(alerts.list, LAMBDA a : a.severity = filter)

\* alerts.filter(...) or filteredAlerts.length on undefined: the render throws.
AlertsRenderThrows == ~alerts.defined /\ (filter # "all" \/ ~alLoading)

\* onClick={() => setFilter(f)} of a filter button, rendered once loading is false.
SetFilter(f) ==
    /\ page = "alerts"
    /\ pgPhase = "mounted"
    /\ ~alLoading
    /\ ~AlertsRenderThrows
    /\ filter' = f
    /\ UNCHANGED << page, pgVars, alerts, summary, alLoading, alOutcome, smOutcome, rtVars, hpVars, anVars, hiVars, reVars >>

\* --------------------------------------------------------- analysis page
\* A JSON value read through Number(x): numeric with value v, or not a number.
RawNumbers == { [num |-> FALSE, v |-> 0], [num |-> TRUE, v |-> 5] }

\* Number(x) || d: d for a non-numeric x and for 0.
NumberOr(x, d) == IF x.num /\ x.v # 0 THEN x.v ELSE d

Clock == << "10:00", "11:00", "12:00", "13:00", "14:00" >>

Weekdays == << "Mon", "Tue", "Wed", "Thu", "Fri" >>

\* The arrays /power/analysis/peak-usage can hold.
PeakLists ==
    UNION { { [k \in 1..m |-> [time |-> Clock[k], usage |-> u[k]]] : u \in [1..m -> RawNumbers] } :
              m \in 0..MaxItems }

\* The arrays /power/analysis/load-pattern can hold.
LoadLists ==
    UNION { { [k \in 1..m |-> [day |-> Weekdays[k], morning |-> u[k], afternoon |-> u[k],
                               evening |-> u[k]]] : u \in [1..m -> RawNumbers] } :
              m \in 0..MaxItems }

DUMMY_PEAK_DATA ==
    << [time |-> "18:11", usage |-> 365], [time |-> "18:12", usage |-> 395],
       [time |-> "18:13", usage |-> 455], [time |-> "18:13", usage |-> 375],
       [time |-> "18:14", usage |-> 505], [time |-> "18:14", usage |-> 525],
       [time |-> "18:14", usage |-> 610] >>

DUMMY_LOAD_PATTERN ==
    << [day |-> "Mon", morning |-> 365, afternoon |-> 455, evening |-> 610],
       [day |-> "Tue", morning |-> 395, afternoon |-> 375, evening |-> 525],
       [day |-> "Wed", morning |-> 365, afternoon |-> 505, evening |-> 455],
       [day |-> "Thu", morning |-> 455, afternoon |-> 610, evening |-> 395],
       [day |-> "Fri", morning |-> 375, afternoon |-> 525, evening |-> 505],
       [day |-> "Sat", morning |-> 505, afternoon |-> 365, evening |-> 610],
       [day |-> "Sun", morning |-> 525, afternoon |-> 395, evening |-> 455] >>

\* What fetch() and response.json() of a list endpoint can produce: a rejected
\* promise or unparsable body, a non-2xx status, a bare array, or an envelope
\* {success, data: array}.
ListResponses(lists) ==
    { [rejected |-> TRUE, ok |-> FALSE, shape |-> "none", success |-> FALSE, list |-> << >>],
      [rejected |-> FALSE, ok |-> FALSE, shape |-> "none", success |-> FALSE, list |-> << >>] }
    \cup { [rejected |-> FALSE, ok |-> TRUE, shape |-> "array", success |-> FALSE, list |-> l] :
             l \in lists }
    \cup { [rejected |-> FALSE, ok |-> TRUE, shape |-> "envelope", success |-> b, list |-> l] :
             b \in BOOLEAN, l \in lists }

\* data.map(item => ({time: item.time, usage: Number(item.usage) || 0, timestamp: undefined}))
FormatPeak(list) ==
    [k \in 1..Len(list) |-> [time |-> list[k].time, usage |-> NumberOr(list[k].usage, 0)]]

\* data.map(item => ({day, morning: Number(item.morning) || 0, ...}))
FormatLoad(list) ==
    [k \in 1..Len(list) |->
        [day |-> list[k].day, morning |-> NumberOr(list[k].morning, 0),
         afternoon |-> NumberOr(list[k].afternoon, 0), evening |-> NumberOr(list[k].evening, 0)]]

\* Variant: the length of the array is not tested.
BodyIsArray(resp) == resp.shape = "array"

\* Array.isArray(data) && data.length > 0, data being the parsed body itself.
BodyIsFilledArray(resp) == resp.shape = "array" /\ Len(resp.list) > 0

\* fetchPeakUsageData: the dummy set unless the body is a non-empty array.
PeakAfter(resp) ==
    IF resp.rejected \/ ~resp.ok THEN DUMMY_PEAK_DATA
    ELSE IF ~BodyIsFilledArray(resp) THEN DUMMY_PEAK_DATA
    ELSE FormatPeak(resp.list)

\* fetchLoadPatternData: the dummy set unless the body is a non-empty array.
LoadAfter(resp) ==
    IF resp.rejected \/ ~resp.ok THEN DUMMY_LOAD_PATTERN
    ELSE IF ~BodyIsFilledArray(resp) THEN DUMMY_LOAD_PATTERN
    ELSE FormatLoad(resp.list)

\* The power factors the server can report, in thousandths (one of them a
\* half-way numeral); not a number; 0.
RawFactors == { [num |-> FALSE, v |-> 0], [num |-> TRUE, v |-> 0],
                [num |-> TRUE, v |-> 845], [num |-> TRUE, v |-> 872],
                [num |-> TRUE, v |-> 998] }

\* The body of /power/analysis/power-factor: null, {power_factor}, or an
\* envelope {success, data: {power_factor}}.
FactorResponses ==
    { [rejected |-> TRUE, ok |-> FALSE, shape |-> "none", pf |-> [num |-> FALSE, v |-> 0]],
      [rejected |-> FALSE, ok |-> FALSE, shape |-> "none", pf |-> [num |-> FALSE, v |-> 0]],
      [rejected |-> FALSE, ok |-> TRUE, shape |-> "null", pf |-> [num |-> FALSE, v |-> 0]] }
    \cup { [rejected |-> FALSE, ok |-> TRUE, shape |-> sh, pf |-> x] :
             sh \in {"object", "envelope"}, x \in RawFactors }

\* toFixed(2) rounds the binary double, not the decimal numeral. A numeral of
\* three decimals ending in 5 is half-way in decimal, but its double is exact
\* only for the multiples of 0.125; every other one lies just above or just
\* below, and toFixed follows the double. These are the thousandths in 0..1999
\* whose double lies below the numeral (0.845 is 0.84499999999999997...).
HalvesBelow ==
    {
      15, 45, 75, 105, 145, 155, 175, 185, 205, 215, 235, 245,
      285, 295, 305, 345, 355, 365, 415, 425, 435, 475, 485, 495,
      565, 575, 585, 595, 605, 615, 695, 705, 715, 725, 735, 745,
      815, 825, 835, 845, 855, 865, 945, 955, 965, 975, 985, 995,
      1005, 1015, 1025, 1035, 1045, 1055, 1065, 1075, 1085, 1095, 1105, 1115,
      1255, 1265, 1275, 1285, 1295, 1305, 1315, 1325, 1335, 1345, 1355, 1365,
      1505, 1515, 1525, 1535, 1545, 1555, 1565, 1575, 1585, 1595, 1605, 1615,
      1755, 1765, 1775, 1785, 1795, 1805, 1815, 1825, 1835, 1845, 1855, 1865 }

\* parseFloat(pf.toFixed(2)): thousandths in 0..1999 rounded to hundredths, the
\* half-way numerals as their doubles fall (an exact half goes up).
ToFixed2(thousandths) ==
    IF thousandths \in HalvesBelow THEN thousandths \div 10
    ELSE (thousandths + 5) \div 10

\* if (data && data.power_factor) setPowerFactor(parseFloat((Number(...) || 0.95).toFixed(2)))
\* A string that is not a number is truthy; the number 0 is not.
FactorAfter(old, resp) ==
    IF resp.rejected \/ ~resp.ok THEN old
    ELSE IF resp.shape # "object" THEN old
    ELSE IF resp.pf.num /\ resp.pf.v = 0 THEN old
    ELSE ToFixed2(NumberOr(resp.pf, 950))

\* The body of /power/statistics?days=30: null, the statistics, or an envelope of them.
StatsResponses ==
    { [rejected |-> TRUE, ok |-> FALSE, shape |-> "none", total |-> [num |-> FALSE, v |-> 0],
       hasPeak |-> FALSE],
      [rejected |-> FALSE, ok |-> FALSE, shape |-> "none", total |-> [num |-> FALSE, v |-> 0],
       hasPeak |-> FALSE],
      [rejected |-> FALSE, ok |-> TRUE, shape |-> "null", total |-> [num |-> FALSE, v |-> 0],
       hasPeak |-> FALSE] }
    \cup { [rejected |-> FALSE, ok |-> TRUE, shape |-> sh, total |-> x, hasPeak |-> b] :
             sh \in {"object", "envelope"},
             x \in { [num |-> FALSE, v |-> 0], [num |-> TRUE, v |-> 100] }, b \in BOOLEAN }

\* Math.round(totalEnergy * 0.15)
Savings(totalEnergy) == (15 * totalEnergy + 50) \div 100

\* fetchStatistics of the analysis page: statsData = data.data || data; a null
\* body throws and is caught.
AnStatsAfter(old, resp) ==
    IF resp.rejected \/ ~resp.ok \/ resp.shape = "null" THEN old
    ELSE [time |-> IF resp.hasPeak THEN "19:00" ELSE "6PM - 7PM",
          savings |-> Savings(NumberOr(resp.total, 0))]

AnalysisInit ==
    /\ peakUsageData = DUMMY_PEAK_DATA
    /\ loadPatternData = DUMMY_LOAD_PATTERN
    /\ powerFactor = 95
    /\ anStatistics = [time |-> "8PM - 10PM", savings |-> 35]
    /\ anLoading = TRUE
    /\ anError = "null"

\* Variant: the first fetch that settles clears loading.
AnLoadingAfterFirst(f, r) == FALSE

\* Promise.all of fetchAllData resolves with the last of its four fetches; then
\* setLoading(false).
AnLoadingAfter(f, r) ==
    IF \A g \in MountFetchers("analysis") : PendingAfterArrival(f, r)[g] = {}
    THEN FALSE ELSE anLoading

PeakComplete(r, resp) ==
    /\ pgPhase = "mounted"
    /\ r \in pending["peak"]
    /\ pending' = PendingAfterArrival("peak", r)
    /\ peakUsageData' = PeakAfter(resp)
    /\ anLoading' = AnLoadingAfter("peak", r)
    /\ UNCHANGED << page, pgPhase, timers, polls, loadPatternData, powerFactor, anStatistics,
                    anError, rtVars, hpVars, alVars, hiVars, reVars >>

LoadComplete(r, resp) ==
    /\ pgPhase = "mounted"
    /\ r \in pending["load"]
    /\ pending' = PendingAfterArrival("load", r)
    /\ loadPatternData' = LoadAfter(resp)
    /\ anLoading' = AnLoadingAfter("load", r)
    /\ UNCHANGED << page, pgPhase, timers, polls, peakUsageData, powerFactor, anStatistics,
                    anError, rtVars, hpVars, alVars, hiVars, reVars >>

FactorComplete(r, resp) ==
    /\ pgPhase = "mounted"
    /\ r \in pending["pf"]
    /\ pending' = PendingAfterArrival("pf", r)
    /\ powerFactor' = FactorAfter(powerFactor, resp)
    /\ anLoading' = AnLoadingAfter("pf", r)
    /\ UNCHANGED << page, pgPhase, timers, polls, peakUsageData, loadPatternData, anStatistics,
                    anError, rtVars, hpVars, alVars, hiVars, reVars >>

AnStatsComplete(r, resp) ==
    /\ pgPhase = "mounted"
    /\ r \in pending["anstats"]
    /\ pending' = PendingAfterArrival("anstats", r)
    /\ anStatistics' = AnStatsAfter(anStatistics, resp)
    /\ anLoading' = AnLoadingAfter("anstats", r)
    /\ UNCHANGED << page, pgPhase, timers, polls, peakUsageData, loadPatternData, powerFactor,
                    anError, rtVars, hpVars, alVars, hiVars, reVars >>

\* ---------------------------------------------------------- history page
TimeFilters == {"Hourly", "Daily", "Monthly"}

\* The endpoint fetchTrendData requests for a filter.
TrendEndpoint(f) ==
    CASE f = "Hourly" -> "/power/hourly/all"
      [] f = "Daily" -> "/power/daily/all"
      [] OTHER -> "/power/monthly/all"

\* The arrays the trend and daily endpoints can hold.
EnergyLists ==
    UNION { { [k \in 1..m |-> [time |-> Clock[k], energy |-> u[k]]] : u \in [1..m -> RawNumbers] } :
              m \in 0..MaxItems }

\* A parsed envelope may also lack its data field.
EnvelopeResponses(lists) ==
    ListResponses(lists)
    \cup { [rejected |-> FALSE, ok |-> TRUE, shape |-> "nodata", success |-> b, list |-> << >>] :
             b \in BOOLEAN }

\* response.success && Array.isArray(response.data) && response.data.length > 0
EnvelopeIsFilled(resp) ==
    ~resp.rejected /\ resp.ok /\ resp.shape = "envelope" /\ resp.success /\ Len(resp.list) > 0

\* response.data.map(item => ({time: item.time, energy: Number(item.energy) || 0, ...}))
FormatTrend(list) ==
    [k \in 1..Len(list) |-> [time |-> list[k].time, energy |-> NumberOr(list[k].energy, 0)]]

\* array.slice(-n)
LastN(list, n) == SubSeq(list, Max(1, Len(list) - n + 1), Len(list))

\* last30.map(item => ({day: item.time, usage: Number(item.energy) || 0, ...}))
FormatDaily(list) ==
    [k \in 1..Len(LastN(list, 30)) |->
        [day |-> LastN(list, 30)[k].time, usage |-> NumberOr(LastN(list, 30)[k].energy, 0)]]

\* fetchTrendData: every failure empties the chart.
TrendAfter(resp) == IF EnvelopeIsFilled(resp) THEN FormatTrend(resp.list) ELSE << >>

\* fetchDailyUsage: every failure empties the chart.
DailyAfter(resp) == IF EnvelopeIsFilled(resp) THEN FormatDaily(resp.list) ELSE << >>

\* The envelopes /power/statistics can return.
HStatsResponses ==
    { [rejected |-> TRUE, ok |-> FALSE, success |-> FALSE, hasData |-> FALSE,
       total |-> [num |-> FALSE, v |-> 0]],
      [rejected |-> FALSE, ok |-> FALSE, success |-> FALSE, hasData |-> FALSE,
       total |-> [num |-> FALSE, v |-> 0]] }
    \cup { [rejected |-> FALSE, ok |-> TRUE, success |-> b, hasData |-> FALSE,
            total |-> [num |-> FALSE, v |-> 0]] : b \in BOOLEAN }
    \cup { [rejected |-> FALSE, ok |-> TRUE, success |-> b, hasData |-> TRUE, total |-> x] :
             b \in BOOLEAN, x \in RawNumbers }

ZeroStatistics == [isNull |-> FALSE, total_energy |-> 0, peak_hour |-> "00:00"]

\* fetchStatistics of the history page: a failure keeps the statistics.
HStatsAfter(old, resp) ==
    IF ~resp.rejected /\ resp.ok /\ resp.success /\ resp.hasData
    THEN [isNull |-> FALSE, total_energy |-> NumberOr(resp.total, 0), peak_hour |-> "00:00"]
    ELSE old

HistoryInit ==
    /\ activeFilter = "Daily"
    /\ trendData = << >>
    /\ dailyUsageData = << >>
    /\ hStatistics = ZeroStatistics
    /\ hLoading = TRUE
    /\ lastUpdate = 0
    /\ trendSource = "none"
    /\ clicks = 0

HStatsComplete(r, resp) ==
    /\ pgPhase = "mounted"
    /\ r \in pending["hstats"]
    /\ pending' = PendingAfterArrival("hstats", r)
    /\ hStatistics' = HStatsAfter(hStatistics, resp)
    /\ UNCHANGED << page, pgPhase, timers, polls, activeFilter, trendData, dailyUsageData,
                    hLoading, lastUpdate, trendSource, clicks, rtVars, hpVars, alVars, anVars, reVars >>

\* fetchTrendData completes: setTrendData, setLastUpdate on success, setLoading(false).
TrendComplete(r, resp) ==
    /\ pgPhase = "mounted"
    /\ r \in pending["trend"]
    /\ pending' = PendingAfterArrival("trend", r)
    /\ trendData' = TrendAfter(resp)
    /\ lastUpdate' = (IF EnvelopeIsFilled(resp) THEN r.id ELSE lastUpdate)
    /\ trendSource' = (IF EnvelopeIsFilled(resp) THEN TrendEndpoint(r.arg) ELSE "none")
    /\ hLoading' = FALSE
    /\ UNCHANGED << page, pgPhase, timers, polls, activeFilter, dailyUsageData, hStatistics, clicks,
                    rtVars, hpVars, alVars, anVars, reVars >>

DailyComplete(r, resp) ==
    /\ pgPhase = "mounted"
    /\ r \in pending["daily"]
    /\ pending' = PendingAfterArrival("daily", r)
    /\ dailyUsageData' = DailyAfter(resp)
    /\ UNCHANGED << page, pgPhase, timers, polls, activeFilter, trendData, hStatistics,
                    hLoading, lastUpdate, trendSource, clicks, rtVars, hpVars, alVars, anVars, reVars >>

\* if (loading && trendData.length === 0 && dailyUsageData.length === 0) the
\* page returns the loading view, which has neither the Refresh button nor the
\* filter buttons.
HistoryLoadingView == hLoading /\ Len(trendData) = 0 /\ Len(dailyUsageData) = 0

\* A filter button: setActiveFilter(f); the trend effect runs again when the
\* filter changed: setLoading(true) and a fetch of the new endpoint.
SetActiveFilter(f) ==
    /\ page = "history"
    /\ pgPhase = "mounted"
    /\ ~HistoryLoadingView
    /\ f # activeFilter
    /\ polls["trend"] < MaxPoll
    /\ activeFilter' = f
    /\ hLoading' = TRUE
    /\ polls' = [polls EXCEPT !["trend"] = @ + 1]
    /\ pending' = [pending EXCEPT !["trend"] = @ \cup {Request(polls["trend"] + 1, f)}]
    /\ UNCHANGED << page, pgPhase, timers, trendData, dailyUsageData, hStatistics, lastUpdate,
                    trendSource, clicks,
                    rtVars, hpVars, alVars, anVars, reVars >>

\* useEffect(..., [activeFilter]) runs again when its dependency is another value.
EffectRuns(oldDep, newDep) == oldDep # newDep

\* Refresh Data: setActiveFilter(activeFilter) sets the state to the value it
\* has, so the trend effect does not run again.
handleRefresh ==
    /\ page = "history"
    /\ pgPhase = "mounted"
    /\ ~HistoryLoadingView
    /\ clicks < MaxClicks
    /\ clicks' = clicks + 1
    /\ activeFilter' = activeFilter
    /\ IF EffectRuns(activeFilter, activeFilter') /\ polls["trend"] < MaxPoll
         THEN /\ hLoading' = TRUE
              /\ polls' = [polls EXCEPT !["trend"] = @ + 1]
              /\ pending' = [pending EXCEPT !["trend"] = @ \cup {Request(polls["trend"] + 1, activeFilter')}]
         ELSE UNCHANGED << hLoading, polls, pending >>
    /\ UNCHANGED << page, pgPhase, timers, trendData, dailyUsageData, hStatistics, lastUpdate,
                    trendSource, rtVars, hpVars, alVars, anVars, reVars >>

\* ---------------------------------------------------------- reports page
\* The months new Date() can report when a placeholder is built.
Nows == { [month |-> 1, year |-> 2025], [month |-> 2, year |-> 2025] }

ReportMonths == << [month |-> 12, year |-> 2024], [month |-> 1, year |-> 2025],
                   [month |-> 2, year |-> 2025], [month |-> 3, year |-> 2025] >>

\* The arrays /power/reports/monthly can hold.
ReportLists ==
    UNION { { [k \in 1..m |-> [month |-> ReportMonths[k].month, year |-> ReportMonths[k].year,
                               total_energy |-> e[k]]] : e \in [1..m -> {0, 100}] } :
              m \in 0..MaxItems }

NullMonth == [isNull |-> TRUE, month |-> 0, year |-> 0, total_energy |-> 0]

\* The placeholder built from new Date().
ZeroMonth(now) == [isNull |-> FALSE, month |-> now.month, year |-> now.year, total_energy |-> 0]

MonthValue(now, e) == [isNull |-> FALSE, month |-> now.month, year |-> now.year, total_energy |-> e]

NullStatistics == [isNull |-> TRUE, total_energy |-> 0, peak_hour |-> "00:00"]

\* The envelopes /power/reports/current-month and /power/statistics can
\* return, with the date at which the response is handled.
ObjectResponses ==
    { [rejected |-> rj, ok |-> ok, success |-> sc, hasData |-> hd, total |-> e, now |-> n] :
        rj \in BOOLEAN, ok \in BOOLEAN, sc \in BOOLEAN, hd \in BOOLEAN, e \in {0, 150}, n \in Nows }

ObjectAccepted(resp) == ~resp.rejected /\ resp.ok /\ resp.success /\ resp.hasData

\* First fetch of fetchData: the list, or the empty list.
ReportsAfter(resp) ==
    IF ~resp.rejected /\ resp.ok /\ resp.shape = "envelope" /\ resp.success THEN resp.list
    ELSE << >>

\* Second fetch of fetchData: the month, or the zeroed placeholder.
CurrentMonthAfter(resp) ==
    IF ObjectAccepted(resp) THEN MonthValue(resp.now, resp.total) ELSE ZeroMonth(resp.now)

\* Third fetch of fetchData: the statistics, or zeroed statistics.
RStatsAfter(resp) ==
    IF ObjectAccepted(resp)
    THEN [isNull |-> FALSE, total_energy |-> resp.total, peak_hour |-> "19:00"]
    ELSE ZeroStatistics

ReportsInit ==
    /\ monthlyReports = << >>
    /\ currentMonth = NullMonth
    /\ rStatistics = NullStatistics
    /\ rLoading = TRUE
    /\ monthlyRun = 0
    /\ currentRun = 0
    /\ statsRun = 0

MonthlyComplete(r, resp) ==
    /\ pgPhase = "mounted"
    /\ r \in pending["reports"]
    /\ r.arg = "monthly"
    /\ pending' = PendingAfterArrival("reports", r)
    /\ monthlyReports' = ReportsAfter(resp)
    /\ monthlyRun' = r.id
    /\ UNCHANGED << page, pgPhase, timers, polls, currentMonth, rStatistics, rLoading,
                    currentRun, statsRun,
                    rtVars, hpVars, alVars, anVars, hiVars >>

CurrentMonthComplete(r, resp) ==
    /\ pgPhase = "mounted"
    /\ r \in pending["reports"]
    /\ r.arg = "current"
    /\ pending' = PendingAfterArrival("reports", r)
    /\ currentMonth' = CurrentMonthAfter(resp)
    /\ currentRun' = r.id
    /\ UNCHANGED << page, pgPhase, timers, polls, monthlyReports, rStatistics, rLoading,
                    monthlyRun, statsRun,
                    rtVars, hpVars, alVars, anVars, hiVars >>

\* The last fetch of the run: setStatistics, then setLoading(false).
RStatsComplete(r, resp) ==
    /\ pgPhase = "mounted"
    /\ r \in pending["reports"]
    /\ r.arg = "stats"
    /\ pending' = PendingAfterArrival("reports", r)
    /\ rStatistics' = RStatsAfter(resp)
    /\ rLoading' = FALSE
    /\ statsRun' = r.id
    /\ UNCHANGED << page, pgPhase, timers, polls, monthlyReports, currentMonth,
                    monthlyRun, currentRun,
                    rtVars, hpVars, alVars, anVars, hiVars >>

\* ----------------------------------------------------- helper functions
\* Energy is counted in hundredths of a kWh, money in hundredths of a rupiah
\* per kWh, so a cost in IDR is counted in 1/10000 of a rupiah.
Periods == {"hourly", "daily", "monthly"}

\* const ENERGY_THRESHOLDS, in hundredths of a kWh.
ENERGY_THRESHOLDS ==
    [daily |-> [veryLow |-> 300, low |-> 800, normal |-> 1500, high |-> 2500, veryHigh |-> 2500],
     hourly |-> [veryLow |-> 10, low |-> 30, normal |-> 80, high |-> 150, veryHigh |-> 150],
     monthly |-> [veryLow |-> 9000, low |-> 24000, normal |-> 45000, high |-> 75000,
                  veryHigh |-> 75000]]

VeryLowStatus == [status |-> "Very Low", color |-> "bg-green-100 text-green-800",
                  description |-> "Konsumsi sangat hemat"]

LowStatus == [status |-> "Low", color |-> "bg-green-100 text-green-700",
              description |-> "Konsumsi rendah"]

NormalStatus == [status |-> "Normal", color |-> "bg-blue-100 text-blue-700",
                 description |-> "Konsumsi normal"]

HighStatus == [status |-> "High", color |-> "bg-yellow-100 text-yellow-700",
               description |-> "Konsumsi tinggi"]

VeryHighStatus == [status |-> "Very High", color |-> "bg-red-100 text-red-700",
                   description |-> "Konsumsi sangat tinggi"]

\* Variant: the comparisons include the threshold.
getEnergyStatusInclusive(u, p) ==
    IF u <= ENERGY_THRESHOLDS[p].veryLow THEN VeryLowStatus
    ELSE IF u <= ENERGY_THRESHOLDS[p].low THEN LowStatus
    ELSE IF u <= ENERGY_THRESHOLDS[p].normal THEN NormalStatus
    ELSE IF u <= ENERGY_THRESHOLDS[p].high THEN HighStatus
    ELSE VeryHighStatus

\* Variant: the results of the second and third branch are exchanged.
getEnergyStatusSwapped(u, p) ==
    IF u < ENERGY_THRESHOLDS[p].veryLow THEN VeryLowStatus
    ELSE IF u < ENERGY_THRESHOLDS[p].low THEN NormalStatus
    ELSE IF u < ENERGY_THRESHOLDS[p].normal THEN LowStatus
    ELSE IF u < ENERGY_THRESHOLDS[p].high THEN HighStatus
    ELSE VeryHighStatus

\* function getEnergyStatus(usage, period)
getEnergyStatus(u, p) ==
    IF u < ENERGY_THRESHOLDS[p].veryLow THEN VeryLowStatus
    ELSE IF u < ENERGY_THRESHOLDS[p].low THEN LowStatus
    ELSE IF u < ENERGY_THRESHOLDS[p].normal THEN NormalStatus
    ELSE IF u < ENERGY_THRESHOLDS[p].high THEN HighStatus
    ELSE VeryHighStatus

\* const ELECTRICITY_RATES, in hundredths of a rupiah per kWh.
ELECTRICITY_RATES == [R1_2200VA |-> 144470, R2_3500VA |-> 169953]

\* a / b, kept exact as a fraction.
Quotient(a, b) == [num |-> a, den |-> b]

\* Variant: the non-subsidised tariff.
calculateCostR2(k) ==
    [idr |-> k * ELECTRICITY_RATES.R2_3500VA,
     usd |-> Quotient(k * ELECTRICITY_RATES.R2_3500VA, 15500)]

\* Variant: a fixed charge on top of the energy.
calculateCostWithCharge(k) ==
    [idr |-> k * ELECTRICITY_RATES.R1_2200VA + 1,
     usd |-> Quotient(k * ELECTRICITY_RATES.R1_2200VA + 1, 15500)]

\* function calculateCost(kWh) of the history page:
\* costIDR = kWh * ELECTRICITY_RATES.R1_2200VA; costUSD = costIDR / 15500.
calculateCost(k) ==
    [idr |-> k * ELECTRICITY_RATES.R1_2200VA,
     usd |-> Quotient(k * ELECTRICITY_RATES.R1_2200VA, 15500)]

\* Variant: the reports page converts at another exchange rate.
ReportsCalculateCostOtherRate(k) ==
    [idr |-> k * ELECTRICITY_RATES.R1_2200VA,
     usd |-> Quotient(k * ELECTRICITY_RATES.R1_2200VA, USD_TO_IDR + 500)]

\* function calculateCost(kWh) of the reports page: costUSD = costIDR / USD_TO_IDR.
ReportsCalculateCost(k) ==
    [idr |-> k * ELECTRICITY_RATES.R1_2200VA,
     usd |-> Quotient(k * ELECTRICITY_RATES.R1_2200VA, USD_TO_IDR)]

\* Every threshold of the table.
Thresholds ==
    UNION { { ENERGY_THRESHOLDS[p].veryLow, ENERGY_THRESHOLDS[p].low, ENERGY_THRESHOLDS[p].normal,
              ENERGY_THRESHOLDS[p].high, ENERGY_THRESHOLDS[p].veryHigh } : p \in Periods }

\* The usages given to getEnergyStatus: 0, a negative one and those around a threshold.
UsageSamples == {-1, 0} \cup { t + d : t \in Thresholds, d \in (0 - Margin)..Margin }

\* The energies given to calculateCost.
KWhSamples == { k * KWhStep : k \in 0..MaxKWh }

\* No helper is exercised: the state of the helpers in a behaviour of a page.
HelperIdle ==
    /\ tool = "none"
    /\ usage = 0 /\ usage2 = 0 /\ period = "daily" /\ kWh = 0
    /\ status = << >> /\ status2 = << >>
    /\ cost = << >> /\ costDouble = << >> /\ rCost = << >> /\ rCostDouble = << >>

\* The arguments are drawn; nothing is computed yet.
HelperInit ==
    /\ tool \in {"status", "cost"}
    /\ IF tool = "status"
         THEN usage \in UsageSamples /\ usage2 \in UsageSamples /\ period \in Periods /\ kWh = 0
         ELSE usage = 0 /\ usage2 = 0 /\ period = "daily" /\ kWh \in KWhSamples
    /\ status = << >> /\ status2 = << >>
    /\ cost = << >> /\ costDouble = << >> /\ rCost = << >> /\ rCostDouble = << >>
    /\ page = "history"
    /\ RealtimeInit /\ PagesInit /\ AlertsInit /\ AnalysisInit /\ HistoryInit /\ ReportsInit

\* getEnergyStatus(usage, period) is called.
ClassifyUsage ==
    /\ tool = "status"
    /\ status' = << getEnergyStatus(usage, period) >>
    /\ UNCHANGED << tool, usage, usage2, period, kWh, status2, cost, costDouble, rCost, rCostDouble,
                    page, rtVars, pgVars, viewVars >>

\* getEnergyStatus(usage2, period) is called.
ClassifyUsage2 ==
    /\ tool = "status"
    /\ status2' = << getEnergyStatus(usage2, period) >>
    /\ UNCHANGED << tool, usage, usage2, period, kWh, status, cost, costDouble, rCost, rCostDouble,
                    page, rtVars, pgVars, viewVars >>

\* calculateCost(kWh) of the history page is called.
ComputeCost ==
    /\ tool = "cost"
    /\ cost' = << calculateCost(kWh) >>
    /\ UNCHANGED << tool, usage, usage2, period, kWh, status, status2, costDouble, rCost,
                    rCostDouble, page, rtVars, pgVars, viewVars >>

\* calculateCost(2 * kWh) of the history page is called.
ComputeCostDouble ==
    /\ tool = "cost"
    /\ costDouble' = << calculateCost(2 * kWh) >>
    /\ UNCHANGED << tool, usage, usage2, period, kWh, status, status2, cost, rCost,
                    rCostDouble, page, rtVars, pgVars, viewVars >>

\* calculateCost(kWh) of the reports page is called.
ReportsComputeCost ==
    /\ tool = "cost"
    /\ rCost' = << ReportsCalculateCost(kWh) >>
    /\ UNCHANGED << tool, usage, usage2, period, kWh, status, status2, cost, costDouble,
                    rCostDouble, page, rtVars, pgVars, viewVars >>

\* calculateCost(2 * kWh) of the reports page is called.
ReportsComputeCostDouble ==
    /\ tool = "cost"
    /\ rCostDouble' = << ReportsCalculateCost(2 * kWh) >>
    /\ UNCHANGED << tool, usage, usage2, period, kWh, status, status2, cost, costDouble,
                    rCost, page, rtVars, pgVars, viewVars >>

HelperNext ==
    \/ ClassifyUsage
    \/ ClassifyUsage2
    \/ ComputeCost
    \/ ComputeCostDouble
    \/ ReportsComputeCost
    \/ ReportsComputeCostDouble

\* Variant: the month before January is looked up in the same year.
PreviousMonthSameYear(m, y) == [month |-> IF m = 1 THEN 12 ELSE m - 1, year |-> y]

\* previousMonthNum = m === 1 ? 12 : m - 1; previousYearNum = m === 1 ? y - 1 : y
PreviousMonth(m, y) ==
    [month |-> IF m = 1 THEN 12 ELSE m - 1, year |-> IF m = 1 THEN y - 1 ELSE y]

\* monthlyReports.find(r => r.month === m && r.year === y): the index of the
\* first such report, 0 for undefined.
FindReport(list, m, y) ==
    IF \E k \in 1..Len(list) : list[k].month = m /\ list[k].year = y
    THEN CHOOSE k \in 1..Len(list) :
            /\ list[k].month = m /\ list[k].year = y
            /\ \A j \in 1..(k - 1) : ~(list[j].month = m /\ list[j].year = y)
    ELSE 0

\* The energyChange of calculateMetrics for a current month that is not null;
\* the quotient is kept exact, 0 is 0 / 1.
EnergyChange(cur, list) ==
    LET prev == PreviousMonth(cur.month, cur.year)
        k == FindReport(list, prev.month, prev.year)
    IN  IF Len(list) > 0 /\ k # 0 /\ list[IF k = 0 THEN 1 ELSE k].total_energy > 0
        THEN Quotient((cur.total_energy - list[k].total_energy) * 100, list[k].total_energy)
        ELSE Quotient(0, 1)

\* const calculateMetrics = () => {...}, evaluated at every render of the
\* reports page. Energies of the reports page are in hundredths of a kWh.
calculateMetrics ==
    IF currentMonth.isNull
    THEN [monthlyEnergy |-> 0, energyChange |-> Quotient(0, 1), estimatedCostIDR |-> 0,
          estimatedCostUSD |-> Quotient(0, 1), efficiencyScore |-> 0]
    ELSE [monthlyEnergy |-> currentMonth.total_energy,
          energyChange |-> EnergyChange(currentMonth, monthlyReports),
          estimatedCostIDR |-> ReportsCalculateCost(currentMonth.total_energy).idr,
          estimatedCostUSD |-> ReportsCalculateCost(currentMonth.total_energy).usd,
          efficiencyScore |-> IF Len(monthlyReports) > 0 THEN 92 ELSE 0]

Next ==
    \/ Mount
    \/ Tick
    \/ RefreshTick
    \/ CycleTick
    \/ \E r \in inflight : \E resp \in Responses(r) : Complete(r, resp)
    \/ \E r \in inflight : CompleteUnmounted(r)
    \/ Unmount
    \/ PageMount
    \/ PageTick
    \/ \E t \in Intervals : IntervalFire(t)
    \/ PageUnmount
    \/ \E f \in Fetchers : \E r \in pending[f] : PageCompleteUnmounted(f, r)
    \/ \E r \in pending["alerts"] : \E resp \in AlertsResponses : AlertsComplete(r, resp)
    \/ \E r \in pending["summary"] : \E resp \in SummaryResponses : SummaryComplete(r, resp)
    \/ \E f \in {"all"} \cup Severities : SetFilter(f)
    \/ \E r \in pending["peak"] : \E resp \in ListResponses(PeakLists) : PeakComplete(r, resp)
    \/ \E r \in pending["load"] : \E resp \in ListResponses(LoadLists) : LoadComplete(r, resp)
    \/ \E r \in pending["pf"] : \E resp \in FactorResponses : FactorComplete(r, resp)
    \/ \E r \in pending["anstats"] : \E resp \in StatsResponses : AnStatsComplete(r, resp)
    \/ \E r \in pending["hstats"] : \E resp \in HStatsResponses : HStatsComplete(r, resp)
    \/ \E r \in pending["trend"] : \E resp \in EnvelopeResponses(EnergyLists) : TrendComplete(r, resp)
    \/ \E r \in pending["daily"] : \E resp \in EnvelopeResponses(EnergyLists) : DailyComplete(r, resp)
    \/ \E f \in TimeFilters : SetActiveFilter(f)
    \/ handleRefresh
    \/ \E r \in pending["reports"] : \E resp \in EnvelopeResponses(ReportLists) : MonthlyComplete(r, resp)
    \/ \E r \in pending["reports"] : \E resp \in ObjectResponses : CurrentMonthComplete(r, resp)
    \/ \E r \in pending["reports"] : \E resp \in ObjectResponses : RStatsComplete(r, resp)

\* One behaviour follows one page.
Init ==
    /\ page \in Pages
    /\ RealtimeInit
    /\ PagesInit
    /\ AlertsInit
    /\ AnalysisInit
    /\ HistoryInit
    /\ ReportsInit
    /\ HelperIdle

Spec == Init /\ [][Next]_vars

\* The helper functions applied to drawn arguments.
HelperSpec == HelperInit /\ [][HelperNext]_vars

TypeOK ==
    /\ phase \in {"created", "mounted", "unmounted"}
    /\ currentIndex \in 0..MaxLen
    /\ isLive \in BOOLEAN
    /\ cycleLen \in 0..MaxLen
    /\ issued \in 0..MaxReq
    /\ inflight \subseteq 1..issued

\* ------------------------------------------------------------- properties
\* A step in which the response of some request arrives at the mounted page.
Completes == phase = "mounted" /\ issued' = issued /\ inflight' # inflight

\* C1: whenever the buffer is non-empty, 0 <= currentIndex < Len(last7Data),
\* also right after a refresh that installs a shorter buffer.
C1_IndexInRange == Len(last7Data) > 0 => currentIndex \in 0..(Len(last7Data) - 1)

\* C2: a failed refresh (network error, non-2xx status, success=false, missing or
\* empty data) leaves the buffer and currentIndex as they were and sets isLive false.
C2_FailedRefreshKeepsBuffer ==
    [][(Completes /\ lastOutcome' \in FailOutcomes)
         => (last7Data' = last7Data /\ currentIndex' = currentIndex /\ isLive' = FALSE)]_vars

\* A non-2xx response arrived while a buffer of two readings was shown.
C2_Witness ==
    /\ phase = "mounted"
    /\ lastOutcome = "http"
    /\ Len(last7Data) = 2
    /\ ~isLive

\* C3: the buffer is the initial empty sequence or exactly the data array of one
\* successful response (the most recent one), never a mix or a part, whatever is
\* in flight; and after a successful refresh isLive is true.
C3_BufferIsOneResponse ==
    /\ last7Data = lastOkData
    /\ \/ last7Data = << >>
       \/ \E r \in 1..issued : \E n \in 1..MaxLen : last7Data = Payload(r, n)
    /\ lastOutcome = "ok" => isLive

\* The response of request 2 was installed while request 1 was still in flight.
C3_Witness ==
    /\ phase = "mounted"
    /\ lastOutcome = "ok"
    /\ last7Data = Payload(2, 2)
    /\ 1 \in inflight

\* C4: responses are applied in arrival order: the response of a request older
\* than one already shown still overwrites the buffer and the isLive flag.
C4_LateResponseOverwrites ==
    [][\A r \in 1..MaxReq :
         (Completes /\ r \in inflight /\ r \notin inflight' /\ r < newestShown)
           => /\ lastOutcome' = "ok"
                   => (last7Data' = lastOkData' /\ last7Data'[1].created_at = r /\ isLive' = TRUE)
              /\ lastOutcome' \in FailOutcomes => isLive' = FALSE]_vars

\* The buffer holds the data of a request older than one shown before.
C4_Witness ==
    /\ phase = "mounted"
    /\ Len(last7Data) > 0
    /\ last7Data[1].created_at < newestShown

\* C5: an advance sets currentIndex to (currentIndex + 1) mod Len(last7Data) and
\* leaves last7Data and isLive alone; no step changes currentIndex while the
\* buffer is empty.
C5_AdvanceFrame ==
    [][/\ CycleTick => /\ currentIndex' = (currentIndex + 1) % Len(last7Data)
                       /\ last7Data' = last7Data
                       /\ isLive' = isLive
       /\ Len(last7Data) = 0 => currentIndex' = currentIndex]_vars

\* An advance has wrapped from the last of three readings to the first.
C5_Witness ==
    /\ Len(last7Data) = 3
    /\ steps > 0
    /\ base > 0
    /\ currentIndex = 0

\* C6: after a refresh that installed a shorter buffer the advance interval is
\* running over the new length, whatever the index was, and the first advance
\* yields an index inside the new buffer, 0 when the new buffer has one reading.
C6_FirstAdvanceAfterShrink ==
    [][/\ (Completes /\ lastOutcome' = "ok" /\ Len(last7Data') < Len(last7Data))
            => (phase' = "mounted" /\ cycleLen' = Len(last7Data') /\ cycleLeft' > 0)
       /\ (shrunk = "pending" /\ CycleTick)
            => /\ currentIndex' \in 0..(Len(last7Data') - 1)
               /\ Len(last7Data') = 1 => currentIndex' = 0]_vars

\* C7: from an index inside a buffer of length L, L advances with no buffer
\* change in between return to it, and fewer than L do not.
C7_FullCycleReturns ==
    (Len(last7Data) >= 1 /\ base < Len(last7Data))
      => /\ steps = Len(last7Data) => currentIndex = base
         /\ steps \in 1..(Len(last7Data) - 1) => currentIndex # base

\* Three advances over three readings, started at index 1, are back at index 1.
C7_Witness ==
    /\ Len(last7Data) = 3
    /\ base = 1
    /\ steps = 3
    /\ currentIndex = 1

\* C8: while mounted with a non-empty buffer, an advance occurs one cycle period
\* after the previous one, however many refreshes succeed in between.
C8_AdvanceEveryPeriod ==
    (phase = "mounted" /\ Len(last7Data) > 0) => sinceAdvance <= CyclePeriodMs

\* C9: a non-empty buffer never becomes empty again, and isLive is false after
\* each refresh that fails or brings no data.
C9_NeverBlank ==
    [][Len(last7Data) > 0
         => /\ Len(last7Data') > 0
            /\ (Completes /\ lastOutcome' \in FailOutcomes) => isLive' = FALSE]_vars

\* A success envelope with an empty data array arrived and the buffer is still shown.
C9_Witness ==
    /\ phase = "mounted"
    /\ lastOutcome = "empty"
    /\ Len(last7Data) > 0
    /\ ~isLive

\* C10: while mounted, whenever the most recently completed refresh failed, the
\* view shows the Disconnected badge.
C10_DisconnectedVisible ==
    (phase = "mounted" /\ lastOutcome \in FailOutcomes) => Badge = "Disconnected"

\* C11: right after the first successful refresh (the buffer goes from empty
\* to non-empty) currentIndex is 0; no advance moves it while the buffer is empty.
C11_FirstRefreshFocusZero ==
    /\ [](Len(last7Data) = 0 => currentIndex = 0)
    /\ [][(Len(last7Data) = 0 /\ Len(last7Data') > 0) => currentIndex' = 0]_vars

C11_Witness ==
    /\ issued = 1
    /\ inflight = {}
    /\ lastOutcome = "ok"
    /\ Len(last7Data) > 1
    /\ currentIndex = 0
    /\ steps = 0

\* C12: no backoff and no sticky failure. A failed refresh leaves the page
\* mounted, and no outcome of a refresh changes the refresh timer of a page that
\* stays mounted; the timer is never further than one period away while armed;
\* a request is issued by the timer exactly when it is due; and a refresh that
\* succeeds after failures sets isLive and replaces the buffer.
C12_FixedPeriodRetry ==
    /\ [](RefreshArmed => refreshLeft <= RefreshPeriodMs)
    /\ [][/\ (Completes /\ lastOutcome' \in FailOutcomes)
               => (phase' = "mounted" /\ refreshLeft' = refreshLeft)
          /\ (Completes /\ phase' = "mounted") => refreshLeft' = refreshLeft
          /\ (phase = "mounted" /\ issued' = issued + 1)
               => (refreshLeft = 0 /\ refreshLeft' = RefreshPeriodMs)
          /\ (Completes /\ lastOutcome' = "ok")
               => (isLive' /\ last7Data' = lastOkData')]_vars

C12_Witness ==
    /\ phase = "mounted"
    /\ issued = MaxReq
    /\ lastOutcome = "ok"
    /\ failsBefore = 2
    /\ isLive
    /\ Len(last7Data) > 0
    /\ last7Data = lastOkData

\* C13: every interval is set at mount and cleared at unmount. The mount step
\* arms the refresh interval of the page; once a page is unmounted no interval
\* is armed, no request is issued and (realtime page) currentIndex no longer moves.
C13_TimersCancelledOnUnmount ==
    /\ [](phase = "unmounted" => (~RefreshArmed /\ ~CycleArmed))
    /\ [](pgPhase = "unmounted" => ArmedIntervals = {})
    /\ [][/\ (phase = "created" /\ phase' = "mounted") => refreshLeft' = RefreshPeriodMs
          /\ (pgPhase = "created" /\ pgPhase' = "mounted")
               => \A t \in PageIntervals(page) : timers'[t] = Period(t)
          /\ phase = "unmounted" => (issued' = issued /\ currentIndex' = currentIndex)
          /\ pgPhase = "unmounted" => polls' = polls]_vars

C13_Witness ==
    /\ page = "alerts"
    /\ pgPhase = "unmounted"
    /\ polls["alerts"] = 1
    /\ polls["summary"] = 1
    /\ pending["summary"] # {}
    /\ alerts.defined
    /\ ~alLoading

\* C14: no fetch outcome is fatal. The alerts state stays an array and the
\* alerts page renders in every reachable state; on the realtime page a failed
\* refresh never turns a renderable state into one whose render throws.
C14_NoFetchOutcomeFatal ==
    /\ [](alerts.defined /\ ~AlertsRenderThrows)
    /\ [][(Completes /\ lastOutcome' \in FailOutcomes /\ ~RenderThrows) => ~RenderThrows']_vars

\* C15: every page polls every data set it displays. While a page is mounted,
\* each of its fetches that has not yet been issued MaxPoll times has an armed
\* interval that will issue it again (realtime: the refresh interval).
C15_EveryPagePolls ==
    /\ (phase = "mounted" /\ issued < MaxReq) => RefreshArmed
    /\ \A f \in MountFetchers(page) :
          (pgPhase = "mounted" /\ polls[f] < MaxPoll)
             => \E t \in ArmedIntervals : f \in IntervalFetchers(t)

\* A 2xx response {success: true, data: D} with a non-empty array D.
WellFormedEnvelope(resp) ==
    ~resp.rejected /\ resp.ok /\ resp.shape = "envelope" /\ resp.success /\ Len(resp.list) > 0

\* A 2xx response {success: true, data: {power_factor: x}} with a number x > 0.
WellFormedFactorEnvelope(resp) ==
    ~resp.rejected /\ resp.ok /\ resp.shape = "envelope" /\ resp.pf.num /\ resp.pf.v > 0

\* C16: every endpoint is parsed as a {success, data} envelope. Whatever
\* well-formed envelope answers a request in flight, the state its handler sets
\* is derived from the data of the envelope, not the fallback or the old value.
C16_EnvelopeParsed ==
    /\ pending["alerts"] # {} =>
          \A resp \in AlertsResponses :
             (~resp.rejected /\ resp.ok /\ resp.success /\ resp.hasData /\ Len(resp.data) > 0)
                => AlertsAfter(alerts, resp) = JsArray(resp.data)
    /\ pending["trend"] # {} =>
          \A resp \in EnvelopeResponses(EnergyLists) :
             WellFormedEnvelope(resp) => TrendAfter(resp) = FormatTrend(resp.list)
    /\ pending["peak"] # {} =>
          \A resp \in ListResponses(PeakLists) :
             WellFormedEnvelope(resp) => PeakAfter(resp) = FormatPeak(resp.list)
    /\ pending["load"] # {} =>
          \A resp \in ListResponses(LoadLists) :
             WellFormedEnvelope(resp) => LoadAfter(resp) = FormatLoad(resp.list)
    /\ pending["pf"] # {} =>
          \A resp \in FactorResponses :
             WellFormedFactorEnvelope(resp)
                => FactorAfter(powerFactor, resp) = ToFixed2(resp.pf.v)

\* The tiers of the status, in ascending order.
Tier(st) ==
    CASE st = "Very Low" -> 1
      [] st = "Low" -> 2
      [] st = "Normal" -> 3
      [] st = "High" -> 4
      [] st = "Very High" -> 5

\* The half-open bucket of u for thresholds t1 < t2 < t3 < t4.
Bucket(u, t1, t2, t3, t4) ==
    IF u < t1 THEN "Very Low"
    ELSE IF t1 <= u /\ u < t2 THEN "Low"
    ELSE IF t2 <= u /\ u < t3 THEN "Normal"
    ELSE IF t3 <= u /\ u < t4 THEN "High"
    ELSE "Very High"

\* C17: getEnergyStatus returns the half-open bucket of the table: thresholds
\* (0.1, 0.3, 0.8, 1.5) hourly, (3, 8, 15, 25) daily, (90, 240, 450, 750) monthly,
\* here in hundredths of a kWh; daily 7.9 is Low and daily 8.0 is Normal.
C17_StatusIsBucket ==
    Len(status) = 1 =>
       /\ period = "hourly" => status[1].status = Bucket(usage, 10, 30, 80, 150)
       /\ period = "daily" => status[1].status = Bucket(usage, 300, 800, 1500, 2500)
       /\ period = "monthly" => status[1].status = Bucket(usage, 9000, 24000, 45000, 75000)
       /\ (period = "daily" /\ usage = 799) => status[1].status = "Low"
       /\ (period = "daily" /\ usage = 800) => status[1].status = "Normal"

C17_Witness ==
    /\ period = "daily"
    /\ usage = 800
    /\ Len(status) = 1
    /\ status[1].status = "Normal"

\* C18: getEnergyStatus is monotonic: for one period, usage < usage2 implies that
\* the status of usage is not a higher tier than the status of usage2.
C18_StatusMonotonic ==
    (Len(status) = 1 /\ Len(status2) = 1 /\ usage < usage2)
       => Tier(status[1].status) <= Tier(status2[1].status)

C18_Witness ==
    /\ Len(status) = 1
    /\ Len(status2) = 1
    /\ period = "hourly"
    /\ usage = 29
    /\ usage2 = 30
    /\ status[1].status = "Low"
    /\ status2[1].status = "Normal"

\* C19: calculateCost(kWh) returns idr = kWh * 1444.70 and usd = idr / 15500,
\* unrounded, and the call changes nothing but its result.
C19_CostIsTariffTimesEnergy ==
    /\ [](Len(cost) = 1 =>
            /\ cost[1].idr = kWh * 144470
            /\ cost[1].usd.num = cost[1].idr
            /\ cost[1].usd.den = 15500)
    /\ [][cost' # cost
            => UNCHANGED << kWh, page, rtVars, pgVars, viewVars, rCost, costDouble >>]_vars

C19_Witness ==
    /\ Len(cost) = 1
    /\ kWh = 2 * KWhStep
    /\ cost[1].idr = 2 * KWhStep * 144470
    /\ cost[1].idr % 15500 # 0

\* C20: calculateCost is linear through zero, in both copies:
\* calculateCost(0) = {idr: 0, usd: 0} and calculateCost(2k).idr = 2 * calculateCost(k).idr.
C20_CostLinear ==
    /\ (Len(cost) = 1 /\ kWh = 0) => (cost[1].idr = 0 /\ cost[1].usd.num = 0)
    /\ (Len(rCost) = 1 /\ kWh = 0) => (rCost[1].idr = 0 /\ rCost[1].usd.num = 0)
    /\ (Len(cost) = 1 /\ Len(costDouble) = 1) => costDouble[1].idr = 2 * cost[1].idr
    /\ (Len(rCost) = 1 /\ Len(rCostDouble) = 1) => rCostDouble[1].idr = 2 * rCost[1].idr

C20_Witness ==
    /\ kWh = 3 * KWhStep
    /\ Len(cost) = 1
    /\ Len(costDouble) = 1
    /\ Len(rCost) = 1
    /\ Len(rCostDouble) = 1
    /\ costDouble[1].idr = 2 * cost[1].idr
    /\ cost[1].idr > 0

\* A response of a list endpoint that is a network error, a non-2xx status,
\* a payload that is no array, or an empty array.
FallsBack(resp) == resp.rejected \/ ~resp.ok \/ resp.shape # "array" \/ Len(resp.list) = 0

\* formatted is the transformation of list: same length, same order.
PeakTransformOf(formatted, list) ==
    /\ Len(formatted) = Len(list)
    /\ \A k \in 1..Len(list) :
          /\ formatted[k].time = list[k].time
          /\ formatted[k].usage = NumberOr(list[k].usage, 0)

LoadTransformOf(formatted, list) ==
    /\ Len(formatted) = Len(list)
    /\ \A k \in 1..Len(list) :
          /\ formatted[k].day = list[k].day
          /\ formatted[k].morning = NumberOr(list[k].morning, 0)
          /\ formatted[k].afternoon = NumberOr(list[k].afternoon, 0)
          /\ formatted[k].evening = NumberOr(list[k].evening, 0)

\* C21: peakUsageData and loadPatternData are never empty. They hold the dummy
\* set or the transformation of a non-empty array; whatever answers a fetch in
\* flight, a failed outcome sets the dummy set and any other outcome the
\* transformed response, of the same length and order.
C21_AnalysisNeverEmpty ==
    /\ Len(peakUsageData) > 0
    /\ Len(loadPatternData) > 0
    /\ \/ peakUsageData = DUMMY_PEAK_DATA
       \/ \E l \in PeakLists : Len(l) > 0 /\ PeakTransformOf(peakUsageData, l)
    /\ \/ loadPatternData = DUMMY_LOAD_PATTERN
       \/ \E l \in LoadLists : Len(l) > 0 /\ LoadTransformOf(loadPatternData, l)
    /\ pending["peak"] # {} =>
          \A resp \in ListResponses(PeakLists) :
             IF FallsBack(resp) THEN PeakAfter(resp) = DUMMY_PEAK_DATA
             ELSE PeakTransformOf(PeakAfter(resp), resp.list)
    /\ pending["load"] # {} =>
          \A resp \in ListResponses(LoadLists) :
             IF FallsBack(resp) THEN LoadAfter(resp) = DUMMY_LOAD_PATTERN
             ELSE LoadTransformOf(LoadAfter(resp), resp.list)

C21_Witness ==
    /\ page = "analysis"
    /\ pending["peak"] = {}
    /\ pending["load"] = {}
    /\ Len(peakUsageData) = 2
    /\ peakUsageData[1].usage = 0
    /\ peakUsageData[2].usage = 5
    /\ loadPatternData = DUMMY_LOAD_PATTERN

\* C22: on the history page, whenever no trend fetch is in flight, trendData is
\* empty or was derived from the response of the endpoint of the current activeFilter.
C22_TrendMatchesFilter ==
    (page = "history" /\ pgPhase = "mounted" /\ pending["trend"] = {})
       => (trendData = << >> \/ trendSource = TrendEndpoint(activeFilter))

\* C23: every click on Refresh Data issues a new fetch of the trend endpoint of
\* the current activeFilter.
C23_RefreshFetchesTrend ==
    [][clicks' = clicks + 1
         => /\ polls'["trend"] = polls["trend"] + 1
            /\ Request(polls'["trend"], activeFilter) \in pending'["trend"]]_vars

\* C24: on the mounted history page loading is true exactly when a trend fetch
\* is in flight.
C24_LoadingIffTrendInFlight ==
    (page = "history" /\ pgPhase = "mounted") => (hLoading <=> pending["trend"] # {})

\* A step in which fetchAlerts (resp. fetchSummary) of the mounted page ends.
AlertsCompletes == pgPhase = "mounted" /\ pending'["alerts"] # pending["alerts"] /\ polls' = polls

SummaryCompletes == pgPhase = "mounted" /\ pending'["summary"] # pending["summary"] /\ polls' = polls

\* C25: a failed poll of the alerts page keeps the value in memory. fetchAlerts
\* ending with an error or success=false leaves alerts unchanged, fetchSummary
\* likewise leaves summary unchanged, and each changes only its own state.
C25_FailedPollKeepsValue ==
    [][/\ (AlertsCompletes /\ alOutcome' # "ok") => alerts' = alerts
       /\ (SummaryCompletes /\ smOutcome' # "ok") => summary' = summary
       /\ AlertsCompletes => summary' = summary
       /\ SummaryCompletes => alerts' = alerts]_vars

C25_Witness ==
    /\ page = "alerts"
    /\ polls["alerts"] = 2
    /\ pending["alerts"] = {}
    /\ pending["summary"] = {}
    /\ alOutcome = "error"
    /\ smOutcome = "ok"
    /\ alerts.defined
    /\ Len(alerts.list) = 2
    /\ summary.kind = "value"

\* The positions of the alerts of severity f.
SeverityPositions(list, f) == { k \in 1..Len(list) : list[k].severity = f }

\* The i-th position, in ascending order, of a set of positions.
NthPosition(ps, i) == CHOOSE k \in ps : Cardinality({ j \in ps : j <= k }) = i

\* C26: the displayed list is the whole alerts list for 'all' and, for a
\* severity f, exactly the alerts of severity f in their original order;
\* changing the filter leaves alerts and summary unchanged and issues no fetch.
C26_FilterSelectsBySeverity ==
    /\ [](alerts.defined =>
            IF filter = "all" THEN FilteredAlerts = alerts.list
            ELSE /\ Len(FilteredAlerts) = Cardinality(SeverityPositions(alerts.list, filter))
                 /\ \A i \in 1..Len(FilteredAlerts) :
                       FilteredAlerts[i]
                          = alerts.list[NthPosition(SeverityPositions(alerts.list, filter), i)])
    /\ [][filter' # filter
            => (alerts' = alerts /\ summary' = summary /\ polls' = polls /\ pending' = pending)]_vars

C26_Witness ==
    /\ page = "alerts"
    /\ filter = "warning"
    /\ alerts.defined
    /\ Len(alerts.list) = 2
    /\ alerts.list[1].severity = "warning"
    /\ alerts.list[2].severity = "critical"
    /\ Len(FilteredAlerts) = 1
    /\ FilteredAlerts[1].id = 1

\* Some fetch of fetchAllData has not settled.
AnalysisInFlight == \E g \in MountFetchers("analysis") : pending[g] # {}

\* C27: on the mounted analysis page loading is true until all four fetches have
\* settled and false afterwards, whatever their outcomes, and error is always null.
C27_AnalysisLoading ==
    /\ anError = "null"
    /\ (page = "analysis" /\ pgPhase = "created") => anLoading
    /\ (page = "analysis" /\ pgPhase = "mounted") => (anLoading <=> AnalysisInFlight)

C27_Witness ==
    /\ page = "analysis"
    /\ pgPhase = "mounted"
    /\ ~AnalysisInFlight
    /\ ~anLoading
    /\ peakUsageData = DUMMY_PEAK_DATA
    /\ loadPatternData = DUMMY_LOAD_PATTERN
    /\ powerFactor = 95
    /\ anStatistics = [time |-> "8PM - 10PM", savings |-> 35]

\* The fetchData runs whose last fetch completes in this step at the mounted page.
RunsCompleting ==
    { r \in pending["reports"] : pgPhase = "mounted" /\ r.arg = "stats" /\ r \notin pending'["reports"] }

\* C28: after each completed fetchData run, monthlyReports, currentMonth and
\* statistics hold what that run set (its server value or its fallback), or
\* what a run started after it set, never the value of an earlier run; after
\* the first completed run currentMonth and statistics are not null, and
\* loading is false while no run is in flight.
C28_ReportsReplacedEachRun ==
    /\ [][\A r \in RunsCompleting :
             monthlyRun' >= r.id /\ currentRun' >= r.id /\ statsRun' >= r.id]_vars
    /\ [](statsRun > 0 => (~currentMonth.isNull /\ ~rStatistics.isNull))
    /\ []((pgPhase = "mounted" /\ statsRun > 0 /\ pending["reports"] = {}) => ~rLoading)

\* The reports of month m of year y, by position.
ReportsOf(m, y) ==
    { k \in 1..Len(monthlyReports) : monthlyReports[k].month = m /\ monthlyReports[k].year = y }

\* C29: calculateMetrics compares the current month (m, y) with the report of
\* (m-1, y), or of (12, y-1) when m = 1. energyChange is
\* (current - previous) / previous * 100 when that report exists with
\* total_energy > 0 and 0 in every other case; no division by zero occurs.
C29_EnergyChange ==
    LET m == currentMonth.month
        y == currentMonth.year
        prevs == IF m = 1 THEN ReportsOf(12, y - 1) ELSE ReportsOf(m - 1, y)
        change == calculateMetrics.energyChange
    IN  /\ change.den # 0
        /\ IF ~currentMonth.isNull /\ prevs # {}
              /\ \A k \in prevs : monthlyReports[k].total_energy > 0
           THEN \E k \in prevs :
                   /\ change.num = (currentMonth.total_energy - monthlyReports[k].total_energy) * 100
                   /\ change.den = monthlyReports[k].total_energy
           ELSE (\A k \in prevs : monthlyReports[k].total_energy <= 0) => change.num = 0

C29_Witness ==
    /\ page = "reports"
    /\ ~currentMonth.isNull
    /\ currentMonth.month = 1
    /\ currentMonth.year = 2025
    /\ currentMonth.total_energy = 150
    /\ Len(monthlyReports) > 0
    /\ monthlyReports[1].month = 12
    /\ monthlyReports[1].year = 2024
    /\ monthlyReports[1].total_energy = 100
    /\ calculateMetrics.energyChange = [num |-> 5000, den |-> 100]

\* Two quotients of the same dividend by the same divisor.
SameQuotient(a, b) == a.num = b.num /\ a.den = b.den

\* C30: the calculateCost of the history page and the calculateCost of the
\* reports page return the same idr and the same usd for every kWh.
C30_CostCopiesAgree ==
    /\ (Len(cost) = 1 /\ Len(rCost) = 1)
          => (cost[1].idr = rCost[1].idr /\ SameQuotient(cost[1].usd, rCost[1].usd))
    /\ (Len(costDouble) = 1 /\ Len(rCostDouble) = 1)
          => (costDouble[1].idr = rCostDouble[1].idr
              /\ SameQuotient(costDouble[1].usd, rCostDouble[1].usd))

C30_Witness ==
    /\ kWh = MaxKWh * KWhStep
    /\ Len(cost) = 1
    /\ Len(rCost) = 1
    /\ cost[1].idr > 0
    /\ cost[1] = rCost[1]

====
